---- MODULE Spec2Model ----
(***************************************************************************)
(* A state-machine model of lsh (src/src/lsh.c): the read / tokenize /     *)
(* dispatch / wait loop of the shell process together with the one child   *)
(* process that lsh_launch may have outstanding.                           *)
(*                                                                         *)
(* C strings are modelled as sequences of one-character strings, without   *)
(* their terminating NUL.  The characters that TLA+ cannot write directly  *)
(* are named by their C escapes: "\\t" is the tab, "\\a" the bell, and so   *)
(* on; "\\0" is a NUL that strtok has written into a buffer.                *)
(***************************************************************************)
EXTENDS Integers, Sequences, FiniteSets, TLC

\* ------------------------------------------------------------------ bounds
\* Most words on one input line of the shell specification.
MaxWords == 3
\* Deepest directory of the modelled file system (levels below the root).
MaxDepth == 2
\* Longest string handed to the tokenizer in the tokenizer specification.
MaxLineLen == 4
\* Most growth steps a buffer takes in the long-input specification.
MaxGrows == 2
\* The reallocs of one prompt that memory has room for: a later one fails.
MaxReallocs == 2

\* ------------------------------------------------------- program constants
LSH_RL_BUFSIZE == 1024
LSH_TOK_BUFSIZE == 64
LSH_CURRDIR_BUFSIZE == 16
\* Variant: the carriage return left out of the delimiters.
LSH_TOK_DELIM_nocr == <<" ", "\\t", "\\n", "\\a">>
LSH_TOK_DELIM == <<" ", "\\t", "\\r", "\\n", "\\a">>
EXIT_SUCCESS == 0
EXIT_FAILURE == 1

\* The null pointer: distinct from every string, the empty string included.
NULL == <<"NULL">>
\* getchar()'s end-of-file value: distinct from every character.
EOF == "EOF"
\* The terminator strtok writes over the delimiter that ends a token.
NUL == "\\0"
\* No allocation fails (the value of a failAt input that names no allocation).
NoFail == 0 - 1

\* ------------------------------------------------------------------ memory
\* Variant: a new block is handed out and the old contents are not copied
\* (malloc where realloc was meant).
realloc_fresh(block, size) == <<>>

\* realloc(block, size) that succeeds, for a size no smaller than the
\* block's: the block that is returned holds what the old one held.
realloc(block, size) == block

\* -------------------------------------------------------------- tokenizer
\* strchr(LSH_TOK_DELIM, c) != NULL
IsDelim(c) == \E i \in 1..Len(LSH_TOK_DELIM) : LSH_TOK_DELIM[i] = c

\* Variant: no delimiter is skipped before a token starts (strsep's
\* behaviour: two delimiters in a row enclose an empty token).
SkipDelim_none(s, p) == p

\* strtok's first phase: skip the delimiters from p on (strspn).
RECURSIVE SkipDelim(_, _)
SkipDelim(s, p) ==
    IF p > Len(s) THEN p
    ELSE IF IsDelim(s[p]) THEN SkipDelim(s, p + 1)
    ELSE p

\* strtok's second phase: find the end of the token that starts at p (strpbrk).
RECURSIVE ScanToken(_, _)
ScanToken(s, p) ==
    IF p > Len(s) THEN p
    ELSE IF IsDelim(s[p]) THEN p
    ELSE ScanToken(s, p + 1)

\* One call of strtok on buffer s with saved position save: the token (or
\* NULL), the new saved position, and the buffer with the delimiter that
\* ended the token overwritten by a terminator.
strtok(s, save) ==
    LET b == SkipDelim(s, save) IN
    IF b > Len(s)
    THEN [token |-> NULL, save |-> b, str |-> s]
    ELSE LET e == ScanToken(s, b) IN
         [token |-> SubSeq(s, b, e - 1),
          save  |-> IF e > Len(s) THEN e ELSE e + 1,
          str   |-> IF e > Len(s) THEN s ELSE [s EXCEPT ![e] = NUL]]

\* The while loop of lsh_split_line.  tokens holds the slots written so far
\* (position = Len(tokens)); failAt names the allocation that returns NULL:
\* 0 the malloc, k >= 1 the k-th realloc.
\* A write at an index that is not below the capacity is outside the block
\* (oob): the loop's result is then of no account.
RECURSIVE split_loop(_, _, _, _, _)
split_loop(str, save, tokens, bufsize, failAt) ==
    LET r == strtok(str, save) IN
    IF Len(tokens) >= bufsize
    THEN [ok |-> TRUE, tokens |-> tokens, line |-> r.str,
          bufsize |-> bufsize, oob |-> TRUE]
    ELSE IF r.token = NULL
    THEN [ok |-> TRUE, tokens |-> Append(tokens, NULL), line |-> r.str,
          bufsize |-> bufsize, oob |-> FALSE]
    ELSE LET toks == Append(tokens, r.token)
             position == Len(toks)
         IN  IF position >= bufsize
             THEN IF failAt = bufsize \div LSH_TOK_BUFSIZE
                  THEN [ok |-> FALSE, tokens |-> <<>>, line |-> r.str,
                        bufsize |-> bufsize + LSH_TOK_BUFSIZE, oob |-> FALSE]
                  ELSE split_loop(r.str, r.save,
                                  realloc(toks, bufsize + LSH_TOK_BUFSIZE),
                                  bufsize + LSH_TOK_BUFSIZE, failAt)
             ELSE split_loop(r.str, r.save, toks, bufsize, failAt)

\* lsh_split_line: ok = FALSE is the allocation-error exit; otherwise tokens
\* is the array up to and including the NULL slot, and line the buffer as
\* strtok left it.
lsh_split_line(line, failAt) ==
    IF failAt = 0
    THEN [ok |-> FALSE, tokens |-> <<>>, line |-> line,
          bufsize |-> LSH_TOK_BUFSIZE, oob |-> FALSE]
    ELSE split_loop(line, 1, <<>>, LSH_TOK_BUFSIZE, failAt)

\* ------------------------------------------------------------ line reader
\* Variant: the buffer grows only once a write has gone past its end.
read_grows_late(position, bufsize) == position > bufsize

\* The test after position++ in lsh_read_line: the buffer is full.
read_grows(position, bufsize) == position >= bufsize

\* The else branch of the loop of lsh_read_line: c is stored at position
\* (= Len(buffer)), and the buffer grows when that has filled it.
read_store(buffer, bufsize, c, failAt) ==
    LET buf == Append(buffer, c)
        position == Len(buf)
    IN  IF read_grows(position, bufsize)
        THEN IF failAt = bufsize \div LSH_RL_BUFSIZE
             THEN [ok |-> FALSE, buffer |-> <<>>,
                   bufsize |-> bufsize + LSH_RL_BUFSIZE]
             ELSE [ok |-> TRUE,
                   buffer |-> realloc(buf, bufsize + LSH_RL_BUFSIZE),
                   bufsize |-> bufsize + LSH_RL_BUFSIZE]
        ELSE [ok |-> TRUE, buffer |-> buf, bufsize |-> bufsize]

\* The while loop of lsh_read_line.  stream is what getchar() will return,
\* i the index of the next character, buffer the characters stored so far
\* (position = Len(buffer)).
\* A write at an index that is not below the capacity is outside the
\* block (oob).
RECURSIVE read_loop(_, _, _, _, _)
read_loop(stream, i, buffer, bufsize, failAt) ==
    LET c == stream[i] IN
    IF Len(buffer) >= bufsize
    THEN [ok |-> TRUE, buffer |-> buffer, bufsize |-> bufsize,
          eof |-> c = EOF, oob |-> TRUE]
    ELSE IF c = EOF \/ c = "\\n"
    THEN [ok |-> TRUE, buffer |-> buffer, bufsize |-> bufsize,
          eof |-> c = EOF, oob |-> FALSE]
    ELSE LET s == read_store(buffer, bufsize, c, failAt) IN
         IF ~s.ok
         THEN [ok |-> FALSE, buffer |-> <<>>, bufsize |-> s.bufsize,
               eof |-> FALSE, oob |-> FALSE]
         ELSE read_loop(stream, i + 1, s.buffer, s.bufsize, failAt)

\* lsh_read_line: ok = FALSE is the allocation-error exit.
lsh_read_line(stream, failAt) ==
    IF failAt = 0
    THEN [ok |-> FALSE, buffer |-> <<>>, bufsize |-> LSH_RL_BUFSIZE,
          eof |-> FALSE, oob |-> FALSE]
    ELSE read_loop(stream, 1, <<>>, LSH_RL_BUFSIZE, failAt)

\* ------------------------------------------------- registry and dispatcher
builtin_str == << <<"c", "d">>, <<"h", "e", "l", "p">>, <<"e", "x", "i", "t">> >>

builtin_func == <<"lsh_cd", "lsh_help", "lsh_exit">>

lsh_num_builtins == Len(builtin_str)

\* Variant: strncmp(a, b, strlen(b)), which matches b as a prefix of a.
strcmp_prefix(a, b) ==
    IF Len(a) >= Len(b) /\ SubSeq(a, 1, Len(b)) = b THEN 0 ELSE 1

\* strcmp(a, b): 0 exactly when the two strings are equal.
strcmp(a, b) == IF a = b THEN 0 ELSE 1

\* The for loop of lsh_execute (C index i - 1).
RECURSIVE builtin_scan(_, _)
builtin_scan(args, i) ==
    IF i > lsh_num_builtins THEN "lsh_launch"
    ELSE IF strcmp(args[1], builtin_str[i]) = 0 THEN builtin_func[i]
    ELSE builtin_scan(args, i + 1)

\* Variant: the empty command ends the shell, as exit does.
lsh_execute_empty_exits(args) ==
    IF args[1] = NULL THEN "lsh_exit" ELSE builtin_scan(args, 1)

\* lsh_execute: the function the dispatcher hands args to ("none": the empty
\* command, for which it returns 1 itself).
lsh_execute(args) ==
    IF args[1] = NULL THEN "none" ELSE builtin_scan(args, 1)

\* ------------------------------------------------------------ file system
\* The file system the shell runs in: below the root, a chain of MaxDepth
\* directories that are all named DIR.  A working directory is its absolute
\* path.
ROOT == <<"/">>

DIR == <<"d", "i", "r", "e", "c", "t", "o", "r", "y">>

Depth(dir) == IF dir = ROOT THEN 0 ELSE Len(dir) \div (Len(DIR) + 1)

RECURSIVE PathOf(_)
PathOf(d) ==
    IF d = 0 THEN ROOT
    ELSE IF d = 1 THEN ROOT \o DIR
    ELSE PathOf(d - 1) \o <<"/">> \o DIR

Dirs == {PathOf(d) : d \in 0..MaxDepth}

\* chdir(path) in a process whose working directory is dir: 0 and the new
\* working directory, or -1 and the old one.
chdir(dir, path) ==
    IF path = ROOT THEN [ret |-> 0, cwd |-> ROOT]
    ELSE IF path = DIR /\ Depth(dir) < MaxDepth
         THEN [ret |-> 0, cwd |-> PathOf(Depth(dir) + 1)]
    ELSE [ret |-> 0 - 1, cwd |-> dir]

\* getcwd(curr_dir, size) != NULL.  It fails (ENOENT) when the working
\* directory has been unlinked (gone).  With a buffer, it fails (ERANGE)
\* when the path and its terminator do not fit.  With curr_dir = NULL the
\* result is unspecified: onNull = "allocates" is glibc (a buffer of size
\* bytes is allocated and returned), onNull = "fails" a libc that rejects it.
getcwd(curr_dir, size, dir, gone, onNull) ==
    IF gone THEN FALSE
    ELSE IF curr_dir = NULL /\ onNull = "fails" THEN FALSE
    ELSE Len(dir) + 1 <= size

\* ----------------------------------------------------------------- builtins
\* Variant: an argument after the first is a usage error.
lsh_cd_strict(args, dir) ==
    IF args[2] = NULL \/ args[3] # NULL
    THEN [ret |-> 1, cwd |-> dir, diag |-> "lsh: expected argument to cd"]
    ELSE LET r == chdir(dir, args[2]) IN
         IF r.ret # 0
         THEN [ret |-> 1, cwd |-> r.cwd, diag |-> "perror(chdir)"]
         ELSE [ret |-> 1, cwd |-> r.cwd, diag |-> "none"]

\* Variant: a failed chdir ends the loop.
lsh_cd_fatal(args, dir) ==
    IF args[2] = NULL
    THEN [ret |-> 1, cwd |-> dir, diag |-> "lsh: expected argument to cd"]
    ELSE LET r == chdir(dir, args[2]) IN
         IF r.ret # 0
         THEN [ret |-> 0, cwd |-> r.cwd, diag |-> "perror(chdir)"]
         ELSE [ret |-> 1, cwd |-> r.cwd, diag |-> "none"]

\* Variant: cd without an argument changes to the root directory.
lsh_cd_home(args, dir) ==
    IF args[2] = NULL
    THEN [ret |-> 1, cwd |-> ROOT, diag |-> "none"]
    ELSE LET r == chdir(dir, args[2]) IN
         IF r.ret # 0
         THEN [ret |-> 1, cwd |-> r.cwd, diag |-> "perror(chdir)"]
         ELSE [ret |-> 1, cwd |-> r.cwd, diag |-> "none"]

\* lsh_cd: the signal returned, the working directory afterwards and the
\* diagnostic written.
lsh_cd(args, dir) ==
    IF args[2] = NULL
    THEN [ret |-> 1, cwd |-> dir, diag |-> "lsh: expected argument to cd"]
    ELSE LET r == chdir(dir, args[2]) IN
         IF r.ret # 0
         THEN [ret |-> 1, cwd |-> r.cwd, diag |-> "perror(chdir)"]
         ELSE [ret |-> 1, cwd |-> r.cwd, diag |-> "none"]

\* Variant: the loop stops one entry short of the registry's end.
lsh_help_short(args) ==
    [ret |-> 1,
     out |-> << <<"Stephen Brennan's LSH", "\\n">>,
                <<"Type program names and arguments, and hit enter.", "\\n">>,
                <<"The following are built in:", "\\n">> >>
             \o [i \in 1..(lsh_num_builtins - 1) |->
                    <<"\\t">> \o builtin_str[i] \o <<"\\n">>]
             \o << <<"Use the man command for information on other programs.",
                     "\\n">> >>]

\* lsh_help: the texts written to standard output, one per printf, and the
\* signal returned.  The words of a format without conversions are kept in
\* one piece, followed by its newline.
lsh_help(args) ==
    [ret |-> 1,
     out |-> << <<"Stephen Brennan's LSH", "\\n">>,
                <<"Type program names and arguments, and hit enter.", "\\n">>,
                <<"The following are built in:", "\\n">> >>
             \o [i \in 1..lsh_num_builtins |->
                    <<"\\t">> \o builtin_str[i] \o <<"\\n">>]
             \o << <<"Use the man command for information on other programs.",
                     "\\n">> >>]

\* Variant: exit with an argument does not end the loop.
lsh_exit_noargs(args) == IF args[2] = NULL THEN 0 ELSE 1

lsh_exit(args) == 0

\* --------------------------------------------------------- standard output
\* The text ends in a newline.
EndsLine(text) == Len(text) > 0 /\ text[Len(text)] = "\\n"

\* The standard output buffer after printf has put text into buffer buf:
\* a line-buffered stream (mode "line": a terminal) writes the buffer out
\* with every newline, a fully buffered one (mode "full": a pipe or a
\* file) keeps the text.
printf(buf, mode, text) ==
    IF mode = "line" /\ EndsLine(text) THEN <<>> ELSE Append(buf, text)

\* The buffer after one printf for each of texts, in order.
RECURSIVE printf_all(_, _, _)
printf_all(buf, mode, texts) ==
    IF Len(texts) = 0 THEN buf
    ELSE printf_all(printf(buf, mode, Head(texts)), mode, Tail(texts))

\* The buffer after getchar has gone to standard input for more: glibc
\* writes a line-buffered standard output out before it reads from a
\* terminal, and leaves a fully buffered one alone.
getchar_flush(buf, mode) == IF mode = "line" THEN <<>> ELSE buf

\* ---------------------------------------------------------- prompt renderer
\* getenv("USER")
USER == <<"u">>

\* What glibc's printf writes for a null %s argument.
NullText == <<"(", "n", "u", "l", "l", ")">>

\* printf("%s@%s> ", user, curr_dir)
printf_prompt(user, curr_dir) == user \o <<"@">> \o curr_dir \o <<">", " ">>

\* The while loop of lsh_shellprompt.  curr_dir is NULL or "buf" (a live
\* buffer), k the number of reallocs done, failAt the realloc that returns
\* NULL; memory being finite, the realloc after the MaxReallocs-th returns
\* NULL in any case.
RECURSIVE prompt_loop(_, _, _, _, _, _, _)
prompt_loop(curr_dir, size, dir, gone, k, failAt, onNull) ==
    IF getcwd(curr_dir, size, dir, gone, onNull)
    THEN [ok |-> TRUE, text |-> IF curr_dir = NULL THEN NULL ELSE dir,
          size |-> size, grown |-> k]
    ELSE IF failAt = k + 1 \/ k >= MaxReallocs
         THEN [ok |-> FALSE, text |-> NULL,
               size |-> size + LSH_CURRDIR_BUFSIZE, grown |-> k]
         ELSE prompt_loop(<<"buf">>, size + LSH_CURRDIR_BUFSIZE, dir, gone,
                          k + 1, failAt, onNull)

\* lsh_shellprompt up to its printf: the malloc is not checked, so with
\* failAt = 0 the loop starts with curr_dir = NULL.  ok = FALSE is the
\* allocation-error exit; text = NULL means printf is handed a null pointer.
lsh_shellprompt(dir, gone, failAt, onNull) ==
    prompt_loop(IF failAt = 0 THEN NULL ELSE <<"buf">>,
                LSH_CURRDIR_BUFSIZE, dir, gone, 0, failAt, onNull)

\* --------------------------------------------------------- process launcher
ChildPid == 1

\* No child process.  buf is the child's copy of the standard output
\* buffer, out what the child has written from it to standard output.
NoChild ==
    [st |-> "none", code |-> 0, err |-> FALSE, rep |-> FALSE,
     buf |-> <<>>, out |-> <<>>]

\* Variant: a failed fork is not told from a successful one.
fork_branch_noerror(p) == IF p = 0 THEN "child" ELSE "parent"

\* The branch of lsh_launch a process takes on fork()'s return value.
fork_branch(p) ==
    IF p = 0 THEN "child"
    ELSE IF p < 0 THEN "error"
    ELSE "parent"

\* Variant: the child does not exit after a failed execvp.
lsh_launch_child_returns(r, buf) ==
    IF r = 0 - 1
    THEN [st |-> "loop", code |-> 0, err |-> TRUE, rep |-> FALSE,
          buf |-> buf, out |-> <<>>]
    ELSE [st |-> "running", code |-> 0, err |-> FALSE, rep |-> FALSE,
          buf |-> <<>>, out |-> <<>>]

\* The child's branch of lsh_launch, given what execvp did and the child's
\* copy buf of the standard output buffer: r = 0 - 1 is a failed image
\* replacement (perror, then exit(EXIT_FAILURE), which writes out what the
\* buffer holds); otherwise the child is the new image, in which the buffer
\* is no more.  st = "loop" would be a child that returned from lsh_launch
\* into the command loop.
lsh_launch_child(r, buf) ==
    IF r = 0 - 1
    THEN [st |-> "exited", code |-> EXIT_FAILURE, err |-> TRUE, rep |-> FALSE,
          buf |-> <<>>, out |-> buf]
    ELSE [st |-> "running", code |-> 0, err |-> FALSE, rep |-> FALSE,
          buf |-> <<>>, out |-> <<>>]

WIFEXITED(ws) == ws = "exited"

WIFSIGNALED(ws) == ws = "signaled"

\* Variant: waitpid is called once, whatever it reports.
wait_again_never(ws) == FALSE

\* The condition of the do-while loop around waitpid.
wait_again(ws) == ~WIFEXITED(ws) /\ ~WIFSIGNALED(ws)

\* ------------------------------------------------------------------ inputs
\* The words a user types first on a line: the three builtin names, three
\* names that are no builtin (and so name external programs), and two
\* directory paths.
Words ==
    {builtin_str[1], builtin_str[2], builtin_str[3],
     <<"C", "D">>, <<"c", "d", "x">>, <<"E", "x", "i", "t">>,
     DIR, ROOT}

\* The words a user types after the first: the two directory paths (of
\* which DIR names no directory where the chain of directories ends).
ArgWords == {DIR, ROOT}

\* The empty line, and a first word followed by up to MaxWords - 1 others.
WordSeqs ==
    {<<>>} \cup
    UNION {{<<w>> \o a : w \in Words, a \in [1..n -> ArgWords]} :
             n \in 0..(MaxWords - 1)}

\* How a line is laid out: 1 puts single spaces between the words, 2 puts
\* a bell before them, a tab and a space between them and a carriage return
\* after them.
Styles == {1, 2}

Lead(st) == IF st = 1 THEN <<>> ELSE <<"\\a">>

Sep(st) == IF st = 1 THEN <<" ">> ELSE <<"\\t", " ">>

Trail(st) == IF st = 1 THEN <<>> ELSE <<"\\r">>

RECURSIVE Join(_, _)
Join(ws, sep) ==
    IF Len(ws) = 0 THEN <<>>
    ELSE IF Len(ws) = 1 THEN ws[1]
    ELSE ws[1] \o sep \o Join(Tail(ws), sep)

\* The lines standard input can deliver to the shell.
Lines == {Lead(st) \o Join(ws, Sep(st)) \o Trail(st) : ws \in WordSeqs, st \in Styles}

\* What getchar can return in one lsh_read_line: a line, ended by a newline
\* or by the end of the stream.
Streams == {Append(l, end) : l \in Lines, end \in {"\\n", EOF}}

\* The strings of the tokenizer specification: every string of at most
\* MaxLineLen characters over the five delimiters and two other characters.
TokChars == {" ", "\\t", "\\r", "\\n", "\\a", "x", "y"}

TokLines == UNION {[1..n -> TokChars] : n \in 0..MaxLineLen}

\* The line of n characters in which every w-th character is a space and
\* every other one an x.
Pattern(n, w) == [i \in 1..n |-> IF i % w = 0 THEN " " ELSE "x"]

\* The lines of the long-input specification: the empty line; lines of as
\* many characters as a capacity of the line buffer, one fewer and one
\* more, each of about as many tokens as the first capacity of the token
\* array; and lines of as many tokens as that capacity, one fewer and one
\* more.
LongLines ==
    {<<>>}
    \cup {Pattern(m * LSH_RL_BUFSIZE + d, 16 * m) :
            m \in 1..MaxGrows, d \in {0 - 1, 0, 1}}
    \cup {Pattern(2 * (LSH_TOK_BUFSIZE + d) - 1, 2) : d \in {0 - 1, 0, 1}}

\* What standard input holds in the long-input specification: a line and
\* the end of the stream, or a line, its newline and another line.
LongStreams ==
    {Append(l, EOF) : l \in LongLines}
    \cup {Append(l, "\\n") \o <<"y", "\\n">> : l \in LongLines}

\* ------------------------------------------------------------------- state
VARIABLES
    pc,          \* where the shell process is: "prompt", "read", "reading"
                 \* (in the loop of lsh_read_line), "split", "execute",
                 \* "wait", "free" or "exited"
    status,      \* lsh_loop's status, the continuation signal
    line,        \* the buffer lsh_loop's line points to
    args,        \* the array lsh_loop's args points to, NULL slot included
    heap,        \* which of line and args are allocated and not yet freed
    cwd,         \* the shell process's working directory
    eof,         \* standard input has reached end-of-file
    stdout,      \* the texts the shell wrote to standard output in this
                 \* iteration, one per printf
    diag,        \* the last message the shell wrote to standard error
                 \* since it last read a line
    handler,     \* the function lsh_execute last dispatched to ("none":
                 \* none since the last line was read)
    pid,         \* lsh_launch's pid in the shell process (0: fork not
                 \* called since the last line was read)
    child,       \* the child process: st is "none", "forked" (before
                 \* execvp), "running", "stopped", "exited", "signaled" or
                 \* "reaped"; code its exit code; err whether it wrote a
                 \* diagnostic; rep whether its stop was reported to a wait;
                 \* buf and out as for NoChild
    wstatus,     \* what the last waitpid reported in lsh_launch's status
    exitCode,    \* the shell's exit code, Running while it runs
    allocFailed, \* an allocation returned NULL since the last line was read
    input,       \* what standard input holds for getchar when this
                 \* iteration's lsh_read_line is called, at least up to the
                 \* first newline or EOF
    bufsize,     \* lsh_read_line's bufsize: the capacity of line
    oob,         \* the shell has written outside a block
    removed,     \* the working directory has been unlinked
    bufmode,     \* how standard output is buffered: "line" or "full"
    obuf,        \* the texts of stdout that are still in the standard
                 \* output buffer of the shell process
    freed        \* the blocks lsh_loop freed for the last line, in the
                 \* order of the calls

vars == <<pc, status, line, args, heap, cwd, eof, stdout, diag, handler, pid,
          child, wstatus, exitCode, allocFailed, input, bufsize, oob,
          removed, bufmode, obuf, freed>>

Running == 0 - 1

\* The exit code of a process killed by SIGSEGV, as a shell reports it.
Crashed == 128 + 11

Init ==
    /\ pc = "prompt"
    /\ status = 1
    /\ line = <<>>
    /\ args = <<>>
    /\ heap = {}
    /\ cwd \in Dirs
    /\ eof = FALSE
    /\ stdout = <<>>
    /\ diag = "none"
    /\ handler = "none"
    /\ pid = 0
    /\ child = NoChild
    /\ wstatus = "none"
    /\ exitCode = Running
    /\ allocFailed = FALSE
    /\ input = <<>>
    /\ bufsize = 0
    /\ oob = FALSE
    /\ removed = FALSE
    /\ bufmode \in {"line", "full"}
    /\ obuf = <<>>
    /\ freed = <<>>

\* Variant: free(args) is left out.
free_line_only(h, p) == IF p = "line" THEN h \ {p} ELSE h

\* free(p): the blocks that are allocated afterwards.
free(h, p) == h \ {p}

\* The shell process ends with exit code c; its memory goes with it.
Exit(c) ==
    /\ pc' = "exited"
    /\ exitCode' = c
    /\ line' = <<>>
    /\ args' = <<>>
    /\ heap' = {}
    /\ input' = <<>>
    /\ bufsize' = 0
    /\ obuf' = <<>>

\* exit(EXIT_FAILURE) after fprintf(stderr, "lsh: allocation error\n")
AllocationError ==
    /\ Exit(EXIT_FAILURE)
    /\ diag' = "lsh: allocation error"
    /\ allocFailed' = TRUE

\* A write outside a block has undefined behaviour: of its outcomes, the
\* model has the one in which the shell is killed at once (this) and the
\* one in which it goes on with what the writing function returns.
Smashed ==
    /\ Exit(Crashed)
    /\ oob' = TRUE
    /\ UNCHANGED <<diag, allocFailed>>

\* lsh_shellprompt.  failAt = 0: the malloc returns NULL; failAt = k: the
\* k-th realloc does.  ub is what printf does with a null %s argument.
ShellPrompt ==
    /\ pc = "prompt"
    /\ \E failAt \in {NoFail, 0, 1}, onNull \in {"allocates", "fails"},
          ub \in {"(null)", "crash"} :
          LET r == lsh_shellprompt(cwd, removed, failAt, onNull) IN
          IF ~r.ok
          THEN AllocationError /\ UNCHANGED stdout
          ELSE IF r.text = NULL /\ ub = "crash"
          THEN /\ Exit(Crashed)
               /\ allocFailed' = TRUE
               /\ UNCHANGED <<stdout, diag>>
          ELSE LET text == printf_prompt(USER, IF r.text = NULL THEN NullText
                                                                ELSE r.text)
               IN  /\ pc' = "read"
                   /\ stdout' = Append(stdout, text)
                   /\ obuf' = printf(obuf, bufmode, text)
                   /\ allocFailed' = (failAt = 0)
                   /\ UNCHANGED <<line, args, heap, diag, exitCode, input,
                                  bufsize>>
    /\ UNCHANGED <<status, cwd, eof, handler, pid, child, wstatus, oob,
                   removed, bufmode, freed>>

\* lsh_read_line.  Standard input delivers the line l, ended by a newline
\* or by the end of the stream; after end-of-file it delivers nothing more,
\* and getchar does not go to it again.  With the new line, the record of
\* the last dispatch starts afresh.
ReadLine ==
    /\ pc = "read"
    /\ \E stream \in IF eof THEN {<<EOF>>} ELSE Streams,
          failAt \in {NoFail, 0} :
          LET r == lsh_read_line(stream, failAt) IN
          IF ~r.ok
          THEN /\ AllocationError
               /\ UNCHANGED <<eof, handler, pid, child, wstatus, oob, freed>>
          ELSE \/ /\ r.oob
                  /\ Smashed
                  /\ UNCHANGED <<eof, handler, pid, child, wstatus, freed>>
               \/ /\ line' = r.buffer
                  /\ bufsize' = r.bufsize
                  /\ oob' = (oob \/ r.oob)
                  /\ input' = stream
                  /\ heap' = heap \cup {"line"}
                  /\ args' = args
                  /\ eof' = (eof \/ r.eof)
                  /\ obuf' = IF eof THEN obuf
                             ELSE getchar_flush(obuf, bufmode)
                  /\ pc' = "split"
                  /\ diag' = "none"
                  /\ handler' = "none"
                  /\ pid' = 0
                  /\ child' = NoChild
                  /\ wstatus' = "none"
                  /\ allocFailed' = FALSE
                  /\ freed' = <<>>
                  /\ UNCHANGED exitCode
    /\ UNCHANGED <<status, cwd, stdout, removed, bufmode>>

\* The start of lsh_read_line, up to its loop, for a line of LongLines: the
\* malloc, and the first getchar's going to standard input.
ReadStart ==
    /\ pc = "read"
    /\ \E stream \in LongStreams, failAt \in {NoFail, 0} :
          IF failAt = 0
          THEN /\ AllocationError
               /\ UNCHANGED <<handler, pid, child, wstatus, freed>>
          ELSE /\ line' = <<>>
               /\ bufsize' = LSH_RL_BUFSIZE
               /\ input' = stream
               /\ heap' = heap \cup {"line"}
               /\ obuf' = getchar_flush(obuf, bufmode)
               /\ pc' = "reading"
               /\ diag' = "none"
               /\ handler' = "none"
               /\ pid' = 0
               /\ child' = NoChild
               /\ wstatus' = "none"
               /\ allocFailed' = FALSE
               /\ freed' = <<>>
               /\ UNCHANGED <<args, exitCode>>
    /\ UNCHANGED <<status, cwd, eof, stdout, oob, removed, bufmode>>

\* One round of the loop of lsh_read_line: c = getchar() is the character
\* of input after those stored so far; at the end of the line the
\* terminator is written and the buffer returned.  Either write is at
\* index position = Len(line).
ReadChar ==
    /\ pc = "reading"
    /\ LET c == input[Len(line) + 1] IN
       \/ /\ Len(line) >= bufsize
          /\ Smashed
          /\ UNCHANGED eof
       \/ /\ oob' = (oob \/ Len(line) >= bufsize)
          /\ IF c = EOF \/ c = "\\n"
             THEN /\ pc' = "split"
                  /\ eof' = (c = EOF)
                  /\ UNCHANGED <<line, args, heap, diag, exitCode,
                                 allocFailed, input, bufsize, obuf>>
             ELSE \E failAt \in {NoFail, bufsize \div LSH_RL_BUFSIZE} :
                     LET s == read_store(line, bufsize, c, failAt) IN
                     IF ~s.ok
                     THEN AllocationError /\ UNCHANGED eof
                     ELSE /\ line' = s.buffer
                          /\ bufsize' = s.bufsize
                          /\ UNCHANGED <<pc, args, heap, eof, diag, exitCode,
                                         allocFailed, input, obuf>>
    /\ UNCHANGED <<status, cwd, stdout, handler, pid, child, wstatus, removed,
                   bufmode, freed>>

\* lsh_split_line(line)
SplitLine ==
    /\ pc = "split"
    /\ \E failAt \in {NoFail, 0} :
          LET r == lsh_split_line(line, failAt) IN
          IF ~r.ok
          THEN AllocationError /\ UNCHANGED oob
          ELSE \/ r.oob /\ Smashed
               \/ /\ args' = r.tokens
                  /\ line' = r.line
                  /\ oob' = (oob \/ r.oob)
                  /\ heap' = heap \cup {"args"}
                  /\ pc' = "execute"
                  /\ UNCHANGED <<diag, exitCode, allocFailed, input, bufsize,
                                 obuf>>
    /\ UNCHANGED <<status, cwd, eof, stdout, handler, pid, child, wstatus,
                   removed, bufmode, freed>>

\* lsh_execute(args), and of lsh_launch the fork and the branch the parent
\* takes on its result.  The child gets a copy of the parent's memory, its
\* standard output buffer included.
Execute ==
    /\ pc = "execute"
    /\ LET f == lsh_execute(args) IN
       /\ handler' = f
       /\ CASE f = "none" ->
                 /\ status' = 1
                 /\ pc' = "free"
                 /\ UNCHANGED <<cwd, stdout, diag, pid, child, removed, obuf>>
            [] f = "lsh_cd" ->
                 LET r == lsh_cd(args, cwd) IN
                 /\ cwd' = r.cwd
                 /\ removed' = IF r.cwd # cwd THEN FALSE ELSE removed
                 /\ diag' = r.diag
                 /\ status' = r.ret
                 /\ pc' = "free"
                 /\ UNCHANGED <<stdout, pid, child, obuf>>
            [] f = "lsh_help" ->
                 LET r == lsh_help(args) IN
                 /\ stdout' = stdout \o r.out
                 /\ obuf' = printf_all(obuf, bufmode, r.out)
                 /\ status' = r.ret
                 /\ pc' = "free"
                 /\ UNCHANGED <<cwd, diag, pid, child, removed>>
            [] f = "lsh_exit" ->
                 /\ status' = lsh_exit(args)
                 /\ pc' = "free"
                 /\ UNCHANGED <<cwd, stdout, diag, pid, child, removed, obuf>>
            [] f = "lsh_launch" ->
                 \E p \in {0 - 1, ChildPid} :
                    /\ pid' = p
                    /\ child' = IF p > 0
                                THEN [NoChild EXCEPT !.st = "forked",
                                                     !.buf = obuf]
                                ELSE NoChild
                    /\ IF fork_branch(p) = "error"
                       THEN /\ diag' = "perror(fork)"
                            /\ status' = 1
                            /\ pc' = "free"
                       ELSE /\ pc' = "wait"
                            /\ UNCHANGED <<diag, status>>
                    /\ UNCHANGED <<cwd, stdout, removed, obuf>>
    /\ UNCHANGED <<line, args, heap, eof, wstatus, exitCode, allocFailed,
                   input, bufsize, oob, bufmode, freed>>

\* The child's branch of lsh_launch: execvp replaces the image or fails.
ChildExec ==
    /\ child.st = "forked"
    /\ fork_branch(0) = "child"
    /\ \E r \in {0, 0 - 1} : child' = lsh_launch_child(r, child.buf)
    /\ UNCHANGED <<pc, status, line, args, heap, cwd, eof, stdout, diag,
                   handler, pid, wstatus, exitCode, allocFailed, input,
                   bufsize, oob, removed, bufmode, obuf, freed>>

\* The launched program is suspended (SIGSTOP, SIGTSTP).
ChildStop ==
    /\ child.st = "running"
    /\ child' = [child EXCEPT !.st = "stopped", !.rep = FALSE]
    /\ UNCHANGED <<pc, status, line, args, heap, cwd, eof, stdout, diag,
                   handler, pid, wstatus, exitCode, allocFailed, input,
                   bufsize, oob, removed, bufmode, obuf, freed>>

\* The suspended program is resumed (SIGCONT).
ChildCont ==
    /\ child.st = "stopped"
    /\ child' = [child EXCEPT !.st = "running", !.rep = FALSE]
    /\ UNCHANGED <<pc, status, line, args, heap, cwd, eof, stdout, diag,
                   handler, pid, wstatus, exitCode, allocFailed, input,
                   bufsize, oob, removed, bufmode, obuf, freed>>

\* The launched program exits.
ChildExit ==
    /\ child.st = "running"
    /\ \E c \in {EXIT_SUCCESS, EXIT_FAILURE} :
          child' = [child EXCEPT !.st = "exited", !.code = c]
    /\ UNCHANGED <<pc, status, line, args, heap, cwd, eof, stdout, diag,
                   handler, pid, wstatus, exitCode, allocFailed, input,
                   bufsize, oob, removed, bufmode, obuf, freed>>

\* The child is killed by a signal; a child killed before its execvp
\* writes nothing of its buffer.
ChildSignal ==
    /\ child.st \in {"forked", "running", "stopped"}
    /\ child' = [child EXCEPT !.st = "signaled", !.buf = <<>>]
    /\ UNCHANGED <<pc, status, line, args, heap, cwd, eof, stdout, diag,
                   handler, pid, wstatus, exitCode, allocFailed, input,
                   bufsize, oob, removed, bufmode, obuf, freed>>

\* One round of lsh_launch's do-while loop in which waitpid(pid, &status,
\* WUNTRACED) returns pid: the child has exited, was killed, or has stopped
\* and that stop was not reported yet.  When the loop ends, lsh_launch and
\* lsh_execute return 1.
Wait ==
    /\ pc = "wait"
    /\ \/ child.st \in {"exited", "signaled"}
       \/ child.st = "stopped" /\ ~child.rep
    /\ wstatus' = child.st
    /\ child' = IF child.st = "stopped"
                THEN [child EXCEPT !.rep = TRUE]
                ELSE [child EXCEPT !.st = "reaped"]
    /\ IF wait_again(child.st)
       THEN UNCHANGED <<pc, status>>
       ELSE pc' = "free" /\ status' = 1
    /\ UNCHANGED <<line, args, heap, cwd, eof, stdout, diag, handler, pid,
                   exitCode, allocFailed, input, bufsize, oob, removed,
                   bufmode, obuf, freed>>

\* waitpid returns -1: perror, then exit(EXIT_FAILURE).
WaitFail ==
    /\ pc = "wait"
    /\ Exit(EXIT_FAILURE)
    /\ diag' = "perror(waitpid)"
    /\ UNCHANGED <<status, cwd, eof, stdout, handler, pid, child, wstatus,
                   allocFailed, oob, removed, bufmode, freed>>

\* The end of an iteration of lsh_loop: free(line), free(args) and the loop
\* test.  When the loop goes on, the record of this iteration's input and
\* output starts afresh; when it ends, main returns EXIT_SUCCESS.
Free ==
    /\ pc = "free"
    /\ freed' = <<"line", "args">>
    /\ IF status # 0
       THEN /\ pc' = "prompt"
            /\ line' = <<>>
            /\ args' = <<>>
            /\ heap' = free(free(heap, "line"), "args")
            /\ input' = <<>>
            /\ bufsize' = 0
            /\ stdout' = <<>>
            /\ obuf' = <<>>
            /\ UNCHANGED exitCode
       ELSE /\ Exit(EXIT_SUCCESS)
            /\ UNCHANGED stdout
    /\ UNCHANGED <<status, cwd, eof, diag, handler, pid, child, wstatus,
                   allocFailed, oob, removed, bufmode>>

\* Another process removes the shell's working directory, which is empty,
\* and makes a new directory of that name in its place: the file system
\* is as it was, and the shell's working directory is unlinked.  The other
\* process gets to do so while the shell is blocked in getchar or waitpid.
RemoveCwd ==
    /\ pc \in {"read", "wait"}
    /\ ~removed
    /\ cwd # ROOT
    /\ Depth(cwd) = MaxDepth
    /\ removed' = TRUE
    /\ UNCHANGED <<pc, status, line, args, heap, cwd, eof, stdout, diag,
                   handler, pid, child, wstatus, exitCode, allocFailed,
                   input, bufsize, oob, bufmode, obuf, freed>>

Next ==
    \/ ShellPrompt
    \/ ReadLine
    \/ SplitLine
    \/ Execute
    \/ ChildExec
    \/ ChildStop
    \/ ChildCont
    \/ ChildExit
    \/ ChildSignal
    \/ Wait
    \/ WaitFail
    \/ Free
    \/ RemoveCwd

Spec == Init /\ [][Next]_vars

\* The tokenizer alone: lsh_split_line applied to every string of TokLines.
InitTok ==
    /\ pc = "split"
    /\ status = 1
    /\ line \in TokLines
    /\ args = <<>>
    /\ heap = {"line"}
    /\ cwd = ROOT
    /\ eof = FALSE
    /\ stdout = <<>>
    /\ diag = "none"
    /\ handler = "none"
    /\ pid = 0
    /\ child = NoChild
    /\ wstatus = "none"
    /\ exitCode = Running
    /\ allocFailed = FALSE
    /\ input = <<>>
    /\ bufsize = LSH_RL_BUFSIZE
    /\ oob = FALSE
    /\ removed = FALSE
    /\ bufmode = "line"
    /\ obuf = <<>>
    /\ freed = <<>>

NextTok == SplitLine

SpecTok == InitTok /\ [][NextTok]_vars

\* Long inputs: the first iteration of the loop of a shell on a terminal,
\* up to the dispatch, with lsh_read_line taken one round of its loop at a
\* time.
InitLong == Init /\ cwd = ROOT /\ bufmode = "line"

NextLong ==
    \/ ShellPrompt
    \/ ReadStart
    \/ ReadChar
    \/ SplitLine

SpecLong == InitLong /\ [][NextLong]_vars

\* ------------------------------------------------------------------ claims
CD == <<"c", "d">>

HELP == <<"h", "e", "l", "p">>

EXIT == <<"e", "x", "i", "t">>

Builtins == {"lsh_cd", "lsh_help", "lsh_exit"}

\* C1: after a successful fork the parent leaves lsh_launch's wait for the
\* command loop only in a step in which waitpid reports that this child
\* exited or was killed by a signal, and then with signal 1; a report that
\* the child stopped leaves the parent waiting; and wherever the parent is
\* in the command loop, no child is outstanding.
C1_ReturnsOnlyAfterChildEnded ==
    /\ [](pc \in {"prompt", "read", "split", "execute", "free"}
            => child.st \in {"none", "reaped"})
    /\ [][pc = "wait" /\ pc' \notin {"wait", "exited"}
            => /\ pc' = "free"
               /\ child.st \in {"exited", "signaled"}
               /\ wstatus' = child.st
               /\ child'.st = "reaped"
               /\ status' = 1]_vars
    /\ [][pc = "wait" /\ wstatus' = "stopped" /\ child'.rep /\ ~child.rep
            => pc' = "wait" /\ status' = status]_vars

\* C1 witness: the parent is back in the loop after a child that was
\* reported stopped and then killed.
C1_Witness ==
    /\ pc = "free"
    /\ handler = "lsh_launch"
    /\ child.st = "reaped"
    /\ child.rep
    /\ wstatus = "signaled"
    /\ status = 1

\* C2: a child whose execvp failed has written its diagnostic and exited
\* with EXIT_FAILURE; no child is ever in the command loop, so the shell
\* process is the only one running it; and when the parent of such a child
\* is back in the loop its signal is 1.
C2_FailedChildExits ==
    /\ child.st # "loop"
    /\ child.err => child.st \in {"exited", "reaped"} /\ child.code = EXIT_FAILURE
    /\ pc = "free" /\ child.err => status = 1 /\ child.st = "reaped"

\* C2 witness: the parent has reaped a child whose execvp failed.
C2_Witness ==
    /\ pc = "free"
    /\ child.err
    /\ child.st = "reaped"
    /\ wstatus = "exited"

\* C3: when the first token is exit, with or without further tokens, the
\* dispatcher returns 0; the iteration then ends the shell with
\* EXIT_SUCCESS; and an ended shell writes no prompt, reads no line and
\* dispatches nothing.
C3_ExitEndsTheLoop ==
    /\ [](pc = "free" /\ args[1] = EXIT => status = 0 /\ handler = "lsh_exit")
    /\ [][pc = "free" /\ args[1] = EXIT
            => pc' = "exited" /\ exitCode' = EXIT_SUCCESS]_vars
    /\ [][pc = "exited"
            => /\ pc' = "exited"
               /\ UNCHANGED <<stdout, line, args, handler, status, exitCode>>]_vars

\* C3 witness: exit with an argument has been dispatched.
C3_Witness ==
    /\ pc = "free"
    /\ args[1] = EXIT
    /\ Len(args) = 3
    /\ status = 0

\* C4: an ended shell ended because exit was dispatched, because an
\* allocation failed or because waitpid failed; a dispatch of anything but
\* exit leaves the shell running with signal 1, and so does a child whose
\* execvp fails.
C4_ThreeCausesOfDeath ==
    /\ [](pc = "exited"
            => \/ handler = "lsh_exit" /\ status = 0 /\ exitCode = EXIT_SUCCESS
               \/ allocFailed
               \/ /\ diag = "perror(waitpid)"
                  /\ handler = "lsh_launch"
                  /\ exitCode = EXIT_FAILURE)
    /\ [][pc = "execute" /\ args[1] # EXIT
            => pc' \in {"free", "wait"} /\ status' = 1 /\ exitCode' = Running]_vars
    /\ [][pc = "free" /\ handler # "lsh_exit" => pc' = "prompt"]_vars
    /\ [][child'.err /\ ~child.err => pc' = pc /\ exitCode' = exitCode]_vars

\* C4 witness: a cd to a path that does not exist has been reported and the
\* shell goes on.
C4_Witness ==
    /\ pc = "free"
    /\ handler = "lsh_cd"
    /\ diag = "perror(chdir)"
    /\ status = 1
    /\ exitCode = Running

\* Every character of l is a space, a tab, a carriage return, a newline or
\* a bell.
OnlyWhitespace(l) ==
    \A i \in 1..Len(l) : l[i] \in {" ", "\\t", "\\r", "\\n", "\\a"}

\* C5: the tokenizer turns an empty or all-whitespace line into the array
\* that holds only the sentinel, and on such an array the dispatcher
\* returns 1, runs no builtin handler and forks no process.
C5_EmptyLineDoesNothing ==
    /\ [][pc = "split" /\ pc' = "execute" /\ OnlyWhitespace(line)
            => args' = <<NULL>>]_vars
    /\ [][pc = "execute" /\ args[1] = NULL
            => /\ pc' = "free"
               /\ status' = 1
               /\ handler' = "none"
               /\ pid' = 0
               /\ child' = NoChild
               /\ UNCHANGED <<cwd, stdout, diag>>]_vars

\* C5 witness: a line of whitespace has been dispatched.
C5_Witness ==
    /\ pc = "free"
    /\ Len(line) > 0
    /\ OnlyWhitespace(line)
    /\ args = <<NULL>>
    /\ status = 1

\* C6: on a non-empty array the dispatcher runs the handler of cd, help or
\* exit exactly when the first token is that name, then forks no process
\* and returns that handler's signal (0 for exit, 1 for the others); on any
\* other first token it calls the launcher, which forks, and the signal
\* with which the launcher returns is 1.
C6_ExactMatchDispatch ==
    /\ [][pc = "execute" /\ args[1] # NULL
            => /\ handler' = (CASE args[1] = CD -> "lsh_cd"
                                [] args[1] = HELP -> "lsh_help"
                                [] args[1] = EXIT -> "lsh_exit"
                                [] OTHER -> "lsh_launch")
               /\ handler' \in Builtins
                    => /\ pid' = 0
                       /\ child' = NoChild
                       /\ pc' = "free"
                       /\ status' = IF handler' = "lsh_exit" THEN 0 ELSE 1
               /\ handler' = "lsh_launch" => pid' # 0]_vars
    /\ [](pc = "free" /\ handler = "lsh_launch" => status = 1)

\* C6 witness: cdx, of which cd is a prefix, has been handed to the launcher.
C6_Witness ==
    /\ pc = "wait"
    /\ args[1] = <<"c", "d", "x">>
    /\ handler = "lsh_launch"
    /\ child.st = "running"

\* C7: the shell's working directory changes only in the dispatch of a cd
\* whose chdir succeeds; cd without an argument and cd to a path that does
\* not exist leave it unchanged, write a diagnostic and return 1.
C7_OnlyCdChangesDirectory ==
    /\ [][cwd' # cwd
            => /\ pc = "execute"
               /\ args[1] = CD
               /\ args[2] # NULL
               /\ chdir(cwd, args[2]).ret = 0
               /\ cwd' = chdir(cwd, args[2]).cwd]_vars
    /\ [][(/\ pc = "execute"
           /\ args[1] = CD
           /\ (args[2] = NULL \/ chdir(cwd, args[2]).ret # 0))
            => cwd' = cwd /\ status' = 1 /\ diag' # "none"]_vars

\* C7 witness: cd without an argument has run below the root.
C7_Witness ==
    /\ pc = "free"
    /\ handler = "lsh_cd"
    /\ args = <<CD, NULL>>
    /\ cwd # ROOT
    /\ diag = "lsh: expected argument to cd"
    /\ status = 1

\* C8: a cd to an existing directory makes it the shell's working
\* directory and returns 1, and the prompt written after such a cd shows
\* the working directory.
C8_CdThenPromptShowsDirectory ==
    /\ [][(/\ pc = "execute"
           /\ args[1] = CD
           /\ args[2] # NULL
           /\ chdir(cwd, args[2]).ret = 0)
            => cwd' = chdir(cwd, args[2]).cwd /\ status' = 1]_vars
    /\ [](pc = "read" /\ handler = "lsh_cd" /\ diag = "none"
            => stdout = <<USER \o <<"@">> \o cwd \o <<">", " ">>>>)

\* C9: when fork fails the launcher writes a diagnostic, calls no waitpid,
\* leaves no child and returns 1, and the loop goes on to the next prompt.
C9_FailedForkSurvived ==
    /\ [][pc = "execute" /\ pid' < 0
            => /\ pc' = "free"
               /\ status' = 1
               /\ diag' = "perror(fork)"
               /\ child' = NoChild]_vars
    /\ [](pid < 0 => pc # "wait" /\ wstatus = "none" /\ child = NoChild)
    /\ [][pc = "free" /\ pid < 0 => pc' = "prompt"]_vars

\* C9 witness: the launcher has returned from a failed fork.
C9_Witness ==
    /\ pc = "free"
    /\ handler = "lsh_launch"
    /\ pid < 0
    /\ diag = "perror(fork)"
    /\ status = 1

\* The maximal runs of l: the pairs <<a, b>> such that l[a..b] holds no
\* whitespace and is preceded and followed by whitespace or an end of l.
MaximalRuns(l) ==
    {r \in (1..Len(l)) \X (1..Len(l)) :
        /\ r[1] <= r[2]
        /\ \A i \in r[1]..r[2] : ~OnlyWhitespace(<<l[i]>>)
        /\ r[1] = 1 \/ OnlyWhitespace(<<l[r[1] - 1]>>)
        /\ r[2] = Len(l) \/ OnlyWhitespace(<<l[r[2] + 1]>>)}

\* C10: the array the tokenizer returns holds the maximal runs of
\* non-whitespace characters of the line, in their order in the line, and
\* then the sentinel: as many slots as runs plus one, the k-th run in
\* slot k.
C10_TokensAreMaximalRuns ==
    [][pc = "split" /\ pc' = "execute"
         => LET runs == MaximalRuns(line) IN
            /\ Len(args') = Cardinality(runs) + 1
            /\ args'[Len(args')] = NULL
            /\ \A r \in runs :
                 args'[Cardinality({q \in runs : q[1] < r[1]}) + 1]
                    = SubSeq(line, r[1], r[2])]_vars

\* C10 witness: a line with two delimiters in a row has been split into
\* two tokens.
C10_Witness ==
    /\ pc = "execute"
    /\ args = << <<"x">>, <<"y">>, NULL >>
    /\ Len(line) = 4

\* The index of the first newline or EOF of stream s.
FirstEnd(s) ==
    CHOOSE i \in 1..Len(s) :
        /\ s[i] \in {"\\n", EOF}
        /\ \A j \in 1..(i - 1) : s[j] \notin {"\\n", EOF}

\* C11: the line reader returns the characters of its input that precede
\* the first newline or end-of-stream, all of them and in their order,
\* whether the line is shorter than the buffer's first capacity, as long,
\* or longer by one or more growth steps; and in every round of its loop
\* the buffer holds the characters of the input read so far, none lost in
\* a growth step: they are at least as many as the capacity was before
\* the buffer last grew.  (The line is modelled without its terminator,
\* which is written where the line ends.)
C11_LineIsInputUpToItsEnd ==
    /\ pc = "split" => line = SubSeq(input, 1, FirstEnd(input) - 1)
    /\ pc = "reading"
         => /\ line = SubSeq(input, 1, Len(line))
            /\ \A i \in 1..Len(line) : line[i] \notin {"\\n", EOF}
            /\ Len(line) >= bufsize - LSH_RL_BUFSIZE

\* C11 witness: a line one character longer than twice the first capacity
\* has been read from a stream that goes on after its newline; the buffer
\* has grown twice.
C11_Witness ==
    /\ pc = "split"
    /\ Len(line) = 2 * LSH_RL_BUFSIZE + 1
    /\ bufsize = 3 * LSH_RL_BUFSIZE
    /\ Len(input) > Len(line) + 1
    /\ ~eof

\* C18: no write of the line reader or of the tokenizer is outside its
\* block: in the line reader the index of the next write, that of the
\* terminator included, is below the buffer's capacity in every round, and
\* the tokenizer's writes, that of the sentinel included, are below the
\* capacity of the array; so it is for lines of exactly 1024 characters
\* and its multiples, and of exactly 64 tokens.
C18_WritesBelowCapacity ==
    /\ ~oob
    /\ pc \in {"reading", "split"} => Len(line) < bufsize

\* C18 witness: a line of exactly 1024 characters that hold exactly 64
\* tokens has been read and split.
C18_Witness ==
    /\ pc = "execute"
    /\ Len(line) = LSH_RL_BUFSIZE
    /\ Len(args) = LSH_TOK_BUFSIZE + 1
    /\ bufsize = 2 * LSH_RL_BUFSIZE
    /\ ~oob

\* C12: whenever an allocation of the line reader, of the tokenizer or of
\* the prompt renderer has returned NULL, its first one or one that grows
\* a buffer, the shell has written "lsh: allocation error" to standard
\* error and has ended with EXIT_FAILURE: it is in no later step of the
\* loop, and it has not used the pointer.
C12_AllocationFailureIsFatal ==
    allocFailed
        => /\ pc = "exited"
           /\ diag = "lsh: allocation error"
           /\ exitCode = EXIT_FAILURE

\* C13: cd attempts a directory change only when exactly one argument
\* follows it; with none, or with two or more, the working directory stays
\* as it is.
C13_CdNeedsExactlyOneArgument ==
    [][(/\ pc = "execute"
        /\ args[1] = CD
        /\ Len(args) # 3)
         => cwd' = cwd]_vars

\* C13 as amended: with no argument after it, cd changes nothing and
\* writes the usage message; with one argument or more, it calls chdir on
\* the first and takes no account of the others: the working directory
\* becomes what that chdir makes it, and a diagnostic is written exactly
\* when that chdir fails.  Either way cd returns 1.
C13_CdUsesItsFirstArgument ==
    /\ [][(/\ pc = "execute"
           /\ args[1] = CD
           /\ Len(args) = 2)
            => /\ cwd' = cwd
               /\ diag' = "lsh: expected argument to cd"
               /\ status' = 1]_vars
    /\ [][(/\ pc = "execute"
           /\ args[1] = CD
           /\ Len(args) >= 3)
            => /\ cwd' = chdir(cwd, args[2]).cwd
               /\ diag' = (IF chdir(cwd, args[2]).ret = 0
                           THEN "none" ELSE "perror(chdir)")
               /\ status' = 1]_vars

\* C13 witness: cd with two arguments has moved the shell from the root
\* into the directory its first argument names.
C13_Witness ==
    /\ pc = "free"
    /\ handler = "lsh_cd"
    /\ args = <<CD, DIR, ROOT, NULL>>
    /\ cwd = PathOf(1)
    /\ diag = "none"
    /\ status = 1

\* The texts that a step has added to standard output.
Written == SubSeq(stdout', Len(stdout) + 1, Len(stdout'))

\* C14: in whatever state the shell has come to, a dispatch of help, with
\* or without arguments, adds to what standard output already holds a
\* list in which each of cd, help and exit is on a line of its own exactly
\* once, leaves the working directory as it is, forks no process and
\* returns 1.  (The registry is a constant of the program; no step can
\* change it.)
C14_HelpListsEveryBuiltinOnce ==
    [][pc = "execute" /\ args[1] = HELP
         => /\ SubSeq(stdout', 1, Len(stdout)) = stdout
            /\ \A name \in {CD, HELP, EXIT} :
                 Cardinality({k \in 1..Len(Written) :
                     Written[k] = <<"\\t">> \o name \o <<"\\n">>}) = 1
            /\ Cardinality({k \in 1..Len(Written) :
                     Written[k][1] = "\\t"}) = lsh_num_builtins
            /\ cwd' = cwd
            /\ removed' = removed
            /\ pid' = 0
            /\ child' = NoChild
            /\ handler' = "lsh_help"
            /\ status' = 1
            /\ pc' = "free"]_vars

\* C14 witness: help with an argument has run below the root.
C14_Witness ==
    /\ pc = "free"
    /\ handler = "lsh_help"
    /\ args = <<HELP, DIR, NULL>>
    /\ cwd # ROOT
    /\ Len(stdout) = 5 + lsh_num_builtins
    /\ status = 1

\* C15: in every iteration the token array is freed no later than the line
\* its tokens point into; line and array are both freed before the next
\* line is read; and where tokens are read (in the dispatch, and in the
\* launcher up to the end of its wait) the line is still allocated.
C15_TokensDiscardedFirst ==
    /\ freed # <<>>
         => \E i, j \in 1..Len(freed) :
               freed[i] = "args" /\ freed[j] = "line" /\ i <= j
    /\ pc \in {"prompt", "read"} => heap = {}
    /\ pc \in {"execute", "wait"} => "line" \in heap

\* C15 as amended: in every iteration the line is freed first and the
\* token array right after it, in one step of the loop in which no token
\* is read; both are freed before the next line is read; and where tokens
\* are read, line and array are both still allocated.
C15_LineThenTokensReleased ==
    /\ freed # <<>> => freed = <<"line", "args">>
    /\ pc \in {"prompt", "read"} => heap = {}
    /\ pc \in {"execute", "wait", "free"} => heap = {"line", "args"}

\* C15 witness: after an iteration that launched a program, the shell is
\* at its next prompt with both blocks freed.
C15_Witness ==
    /\ pc = "prompt"
    /\ handler = "lsh_launch"
    /\ child.st = "reaped"
    /\ freed = <<"line", "args">>
    /\ heap = {}

\* C16: in every iteration the prompt is written to standard output, and
\* when the line reader has gone to standard input for a line, nothing
\* that was written before is still in the standard output buffer,
\* however standard output is buffered.
C16_PromptFlushedBeforeRead ==
    /\ [][pc = "prompt" /\ pc' = "read"
            => Len(stdout') = Len(stdout) + 1]_vars
    /\ [][pc = "read" /\ pc' = "split" /\ ~eof => obuf' = <<>>]_vars

\* C17: wherever the shell is when it renders a prompt, and whatever has
\* become of its working directory, the retry loop of the prompt renderer
\* ends, with no allocation failing, in a prompt, and it has grown the
\* buffer only while the buffer was too small for the path: the size
\* before the last growth step did not hold the path and its terminator.
C17_GrowsOnlyWhenTooSmall ==
    pc = "prompt"
        => LET r == lsh_shellprompt(cwd, removed, NoFail, "allocates") IN
           /\ r.ok
           /\ r.text = cwd
           /\ r.size - LSH_CURRDIR_BUFSIZE < Len(cwd) + 1

\* C19: the signal becomes 0 only in the dispatch of exit.  Once standard
\* input has ended, a read returns the empty line at once, the tokenizer
\* makes of it the array that holds only the sentinel, the dispatcher
\* returns 1 without running anything, and the loop goes on to the next
\* prompt: from the first prompt after the end of input on, the shell does
\* not end (the one thing that then ends it is an allocation that fails).
C19_EndOfInputDoesNotEndTheLoop ==
    /\ [][status' = 0 /\ status # 0
            => pc = "execute" /\ args[1] = EXIT /\ handler' = "lsh_exit"]_vars
    /\ [][pc = "read" /\ eof /\ pc' = "split"
            => input' = <<EOF>> /\ line' = <<>> /\ eof']_vars
    /\ [][pc = "split" /\ input = <<EOF>> /\ pc' = "execute"
            => args' = <<NULL>>]_vars
    /\ [][pc = "execute" /\ input = <<EOF>>
            => /\ handler' = "none"
               /\ status' = 1
               /\ pid' = 0
               /\ pc' = "free"]_vars
    /\ [][pc = "free" /\ input = <<EOF>> => pc' = "prompt"]_vars
    /\ [][(/\ eof
           /\ pc = "prompt" \/ input = <<EOF>>
           /\ pc' = "exited")
            => allocFailed' /\ exitCode' # EXIT_SUCCESS]_vars

\* C19 witness: after the end of input, below the root, an empty line has
\* been read and dispatched, and the signal is 1.
C19_Witness ==
    /\ pc = "free"
    /\ eof
    /\ input = <<EOF>>
    /\ line = <<>>
    /\ args = <<NULL>>
    /\ handler = "none"
    /\ status = 1
    /\ cwd # ROOT

\* C20: no text of the shell reaches standard output a second time through
\* a child: whatever the shell's standard output buffer held when the
\* child was made, the child writes none of it, also not a child whose
\* execvp fails and which then exits.
C20_ChildWritesNothingOfTheBuffer == child.out = <<>>

====
